---- MODULE Spec2Model ----
(***************************************************************************)
(* Session ledger, model fallback orchestrator and response normalizer of  *)
(* the AI component playground (backend/routes/ai.js, the session routes,  *)
(* AIService and RedisClient).                                              *)
(*                                                                         *)
(* Text is modelled as a sequence of tokens.  A token is a TLA+ string     *)
(* that names one piece of the text: "{" and "}" are the braces, "<fence>" *)
(* is three backticks, "<nl>" is a line feed, "jsx" .. "css" are the words *)
(* that may follow a fence, "," is a comma, a member token such as         *)
(* "jsx:<div/>" is the JSON member "jsx":"<div/>", and every other token   *)
(* is a run of ordinary characters (no brace, backtick or line feed).      *)
(* The empty text is <<>>.                                                 *)
(***************************************************************************)
EXTENDS Naturals, Sequences, FiniteSets, TLC

VARIABLES
    store,        \* session id -> persisted Session document
    prev,         \* the store as it was before the last finished request
    aiCache,      \* Redis ai_cache:<key> entries: cache key -> payload
    sessionCache, \* Redis session:<id> entries: the ids that have one
    last,         \* the response of the last finished request
    opCount,      \* number of finished requests
    hist,         \* the successful ledger operations so far, in order
    req,          \* the last finished request: who asked for what, and its cache traffic
    oPc, oPrompt, oOutcome, oI, oCalls, oResult,   \* AIService.generateComponent, step by step
    pPc, pRaw, pOut,                                \* AIService.parseResponse on one raw text
    mounted,        \* SessionPage is mounted
    currentCode,    \* the jsx editor buffer
    currentCSS,     \* the css editor buffer
    saveTimeoutRef, \* saveTimeoutRef.current: the id of the last timer set (0: none yet)
    timers,         \* the browser's pending timeouts of the page
    session,        \* the data of the session query (currentComponent of the last fetch)
    fetching,       \* a fetch of the session query is in flight
    mutations,      \* the PUT requests of updateSessionMutation that are in flight
    remote,         \* the currentComponent the server holds
    sent,           \* the updates handed to updateSessionMutation.mutate, in order
    quiet,          \* ticks since the last edit (counted up to DebounceTicks)
    lastEdit,       \* the two buffers as the last edit left them
    edits,          \* number of edits so far
    eLast,          \* the last event of the page
    rDoc,           \* two concurrent requests on one session: the stored document
    rPc,            \* ... each request's position: "start", "loaded", "saved"
    rOp,            \* ... each request's operation
    rLocal,         \* ... the document each request loaded
    rSaved          \* ... the documents handed to save(), in the order of the saves

ledgerVars == <<store, prev, aiCache, sessionCache, last, opCount, hist, req>>
orchVars == <<oPc, oPrompt, oOutcome, oI, oCalls, oResult>>
parseVars == <<pPc, pRaw, pOut>>
editorVars == <<mounted, currentCode, currentCSS, saveTimeoutRef, timers, session, fetching,
                mutations, remote, sent, quiet, lastEdit, edits, eLast>>
raceVars == <<rDoc, rPc, rOp, rLocal, rSaved>>
vars == <<ledgerVars, orchVars, parseVars, editorVars, raceVars>>

----------------------------------------------------------------------------
(* Tokens and text helpers                                                 *)

LB == "{"
RB == "}"
FENCE == "<fence>"
NL == "<nl>"
COMMA == ","
CssTag == "css"
JsxTags == {"jsx", "tsx", "javascript", "typescript"}

\* JavaScript undefined for a text-valued property (a property that is absent).
UNDEF == <<"<undefined>">>

\* JavaScript truthiness of a text-valued property: "" and undefined are falsy.
Truthy(s) == s # <<>> /\ s # UNDEF

Tok(s, i) == IF i >= 1 /\ i <= Len(s) THEN s[i] ELSE "<eof>"

Indices(s, P(_)) == {i \in 1..Len(s) : P(i)}

Min(S) == CHOOSE m \in S : \A n \in S : m <= n
Max(S) == CHOOSE m \in S : \A n \in S : m >= n

IsPrefix(s, t) == Len(s) <= Len(t) /\ SubSeq(t, 1, Len(s)) = s

----------------------------------------------------------------------------
(* AIService.parseResponse                                                 *)

\* The JSON members the texts of the model can hold: token -> key and value.
Members ==
    { [tok |-> "jsx:<div/>", key |-> "jsx", val |-> <<"<div/>">>],
      [tok |-> "jsx:<span/>", key |-> "jsx", val |-> <<"<span/>">>],
      [tok |-> "jsx:", key |-> "jsx", val |-> <<>>],
      [tok |-> "css:x", key |-> "css", val |-> <<"x">>],
      [tok |-> "css:", key |-> "css", val |-> <<>>],
      [tok |-> "explanation:e", key |-> "explanation", val |-> <<"e">>] }

MemberToks == {m.tok : m \in Members}
MemberOf(t) == CHOOSE m \in Members : m.tok = t

\* Line feeds are JSON whitespace.
JsonSignificant(s) == SelectSeq(s, LAMBDA t : t # NL)

\* JSON.parse accepts the text between (and with) the braces: an object of
\* members separated by commas.  Anything else is a SyntaxError.
JsonParses(inner) ==
    LET s == JsonSignificant(inner)
    IN  \/ s = <<>>
        \/ /\ Len(s) % 2 = 1
           /\ \A i \in 1..Len(s) :
                IF i % 2 = 1 THEN s[i] \in MemberToks ELSE s[i] = COMMA

\* parsed[key] of the object JSON.parse returns: the last member with that key.
JsonField(inner, key) ==
    LET s == JsonSignificant(inner)
        at == Indices(s, LAMBDA i : s[i] \in MemberToks /\ MemberOf(s[i]).key = key)
    IN  IF at = {} THEN UNDEF ELSE MemberOf(s[Max(at)]).val

NoJsxProvided == <<"// No JSX code provided">>
NoStylesProvided == <<"/* No styles provided */">>
ErrorGenerating == <<"// Error generating component">>
GeneratedOk == <<"Component generated successfully">>
BasicParsing == <<"Component generated with basic parsing">>

\* response.match(/\{[\s\S]*\}/): from the first "{" to the last "}".
JsonMatch(response) ==
    LET opens == Indices(response, LAMBDA i : response[i] = LB)
        closes == Indices(response, LAMBDA i : response[i] = RB)
    IN  IF opens # {} /\ closes # {} /\ Max(closes) > Min(opens)
        THEN [found |-> TRUE, inner |-> SubSeq(response, Min(opens) + 1, Max(closes) - 1)]
        ELSE [found |-> FALSE, inner |-> <<>>]

\* Where the text of a block opened at fence p starts, 0 when p opens no block
\* of the wanted kind.  tags: the words allowed after the fence; bare: whether
\* the fence may be followed by the line feed at once.
BlockStart(s, p, tags, bare) ==
    IF Tok(s, p) # FENCE THEN 0
    ELSE IF Tok(s, p + 1) \in tags /\ Tok(s, p + 2) = NL THEN p + 3
    ELSE IF bare /\ Tok(s, p + 1) = NL THEN p + 2
    ELSE 0

\* The lazy ([\s\S]*?)\n``` after a block start c: the first line feed at or
\* after c that a fence follows.
BlockEnds(s, c) == Indices(s, LAMBDA q : q >= c /\ s[q] = NL /\ Tok(s, q + 1) = FENCE)

\* The leftmost match of /```(?:tags)?\n([\s\S]*?)\n```/ and its group 1.
BlockMatch(s, tags, bare) ==
    LET starts == Indices(s, LAMBDA p : /\ BlockStart(s, p, tags, bare) # 0
                                        /\ BlockEnds(s, BlockStart(s, p, tags, bare)) # {})
    IN  IF starts = {} THEN [found |-> FALSE, text |-> <<>>]
        ELSE LET c == BlockStart(s, Min(starts), tags, bare)
             IN  [found |-> TRUE, text |-> SubSeq(s, c, Min(BlockEnds(s, c)) - 1)]

JsxBlockMatch(response) == BlockMatch(response, JsxTags, TRUE)
CssBlockMatch(response) == BlockMatch(response, {CssTag}, FALSE)

\* The JSON branch: the parsed object with the two defaults.
ParsedJson(inner) ==
    [jsx |-> IF Truthy(JsonField(inner, "jsx")) THEN JsonField(inner, "jsx") ELSE NoJsxProvided,
     css |-> IF Truthy(JsonField(inner, "css")) THEN JsonField(inner, "css") ELSE NoStylesProvided,
     explanation |-> JsonField(inner, "explanation")]

\* The fallback branch: fenced code blocks, else the raw text.
ExtractedBlocks(response) ==
    [jsx |-> IF JsxBlockMatch(response).found THEN JsxBlockMatch(response).text ELSE response,
     css |-> IF CssBlockMatch(response).found THEN CssBlockMatch(response).text ELSE NoStylesProvided,
     explanation |-> GeneratedOk]

\* The catch block: the raw text as jsx.
ParseFallback(response) ==
    [jsx |-> IF Truthy(response) THEN response ELSE ErrorGenerating,
     css |-> NoStylesProvided,
     explanation |-> BasicParsing]

parseResponse(response) ==
    IF JsonMatch(response).found
    THEN IF JsonParses(JsonMatch(response).inner)
         THEN ParsedJson(JsonMatch(response).inner)
         ELSE ParseFallback(response)
    ELSE ExtractedBlocks(response)

\* The raw texts parseResponse is run on: up to MaxSegments pieces in a row.
MaxSegments == 3

JsonFull == <<LB, "jsx:<div/>", COMMA, NL, "css:x", COMMA, "explanation:e", RB>>
JsxBlock == <<FENCE, "jsx", NL, "const A=()=>1;", NL, FENCE>>
CssBlock == <<FENCE, CssTag, NL, "body", LB, RB, NL, FENCE>>

\* 'here is code: ```jsx\nconst A=()=>1;\n``` and ```css\nbody{}\n```'
Scenario == <<"here is code: ">> \o JsxBlock \o <<" and ">> \o CssBlock

Segments ==
    { <<"here is code: ">>, <<" and ">>, <<NL>>, <<LB>>, <<RB>>, <<FENCE>>,
      JsxBlock, CssBlock,
      <<FENCE, CssTag, NL, "@import 'a.css';", NL, FENCE>>,
      <<FENCE, "tsx", NL, NL, FENCE>>,
      <<FENCE, NL, "plain", NL, FENCE>>,
      JsonFull,
      <<LB, "css:x", RB>>,
      <<LB, "jsx:", COMMA, "css:", RB>>,
      <<LB, "jsx:<span/>", COMMA>>,
      Scenario }

RECURSIVE Concats(_)
Concats(n) ==
    IF n = 0 THEN {<<>>}
    ELSE Concats(n - 1) \cup {s \o g : s \in Concats(n - 1), g \in Segments}

RawInputs == Concats(MaxSegments)

NoPayload == [jsx |-> UNDEF, css |-> UNDEF, explanation |-> UNDEF]

----------------------------------------------------------------------------
(* AIService.generateComponent and getMockComponent                        *)

NumModels == 4

getMockComponent(prompt) ==
    [jsx |-> <<"import React from 'react'; const MockComponent = () => { ... <p>Your request: ">>
             \o prompt \o <<"</p> ... }; export default MockComponent;">>,
     css |-> <<".mock-component { ... } .mock-button { ... }">>,
     explanation |-> <<"This is a mock component generated when AI services are unavailable.">>]

\* What the completion provider does for one model: the request is rejected
\* ("error"), resolves without message content ("null": reading it throws
\* inside the try block), or resolves with a text.
ErrorOutcome == [kind |-> "error", text |-> <<>>]
NullOutcome == [kind |-> "null", text |-> <<>>]
TextOutcome(t) == [kind |-> "text", text |-> t]

\* The loop of generateComponent from model i on (models are 1..NumModels).
RECURSIVE TryModels(_, _, _)
TryModels(prompt, outcomes, i) ==
    IF outcomes[i].kind = "text" THEN parseResponse(outcomes[i].text)
    ELSE IF i = NumModels THEN getMockComponent(prompt)
    ELSE TryModels(prompt, outcomes, i + 1)

generateComponent(prompt, outcomes) == TryModels(prompt, outcomes, 1)

----------------------------------------------------------------------------
(* The Session document and its schema                                     *)

Users == {"u1", "u2"}
StoredIds == {"s1"}
RequestIds == {"s0", "s1"}
Owner == "u1"

\* currentComponent: a componentStateSchema subdocument, or absent (the path is
\* unset on a document that never assigned it).
Comp(jsx, css, ts) == [present |-> TRUE, jsx |-> jsx, css |-> css, typescript |-> ts]
NoComponent == [present |-> FALSE, jsx |-> UNDEF, css |-> UNDEF, typescript |-> FALSE]
EmptyComponent == Comp(<<>>, <<>>, FALSE)

\* metadata.generatedCode of a chat message, or absent.
Code(jsx, css, ts) == [present |-> TRUE, jsx |-> jsx, css |-> css, typescript |-> ts]
NoCode == [present |-> FALSE, jsx |-> UNDEF, css |-> UNDEF, typescript |-> FALSE]

Message(role, content, hasImage, imageUrl, isRefinement, code) ==
    [role |-> role, content |-> content, hasImage |-> hasImage, imageUrl |-> imageUrl,
     isRefinement |-> isRefinement, generatedCode |-> code]

DefaultTitle == <<"New Component Session">>

\* new Session(sessionData) in POST /sessions, with the schema defaults.
NewSession(cc) ==
    [userId |-> Owner, title |-> DefaultTitle, tags |-> <<>>, isActive |-> TRUE,
     settings |-> [framework |-> "react", styleFramework |-> "css"],
     chatHistory |-> <<>>, currentComponent |-> cc, componentVersions |-> <<>>,
     stats |-> [messagesCount |-> 0, generationsCount |-> 0, exportsCount |-> 0]]

\* sessionSchema.methods.updateStats.  metadata.generatedCode is a nested path
\* of chatMessageSchema, not a subdocument: read from a stored message it is
\* an object whether or not the message was given code, so the filter's
\* second operand is truthy for every message.
updateStats(doc) ==
    [doc EXCEPT
        !.stats.messagesCount = Len(doc.chatHistory),
        !.stats.generationsCount =
            Cardinality({i \in 1..Len(doc.chatHistory) : doc.chatHistory[i].role = "assistant"})]

\* session.save(): the pre-save hook, then the write of the document.
SavedStore(sid, doc) == [store EXCEPT ![sid] = updateStats(doc)]

\* A lookup that finds soft-deleted sessions too.
FindOne_IgnoresActive(sid, user) ==
    /\ sid \in DOMAIN store
    /\ store[sid].userId = user

\* Session.findOne({_id, userId, isActive: true})
FindOne(sid, user) ==
    /\ sid \in DOMAIN store
    /\ store[sid].userId = user
    /\ store[sid].isActive

\* The snapshot the routes push onto componentVersions.
Snapshot(cc) == Comp(cc.jsx, cc.css, cc.typescript)

\* session.currentComponent.jsx || session.currentComponent.css
HasCode(cc) == Truthy(cc.jsx) \/ Truthy(cc.css)

----------------------------------------------------------------------------
(* Requests and responses                                                  *)

MaxOps == 2

PromptMin == 3
PromptMax == 2000
RefinePromptMax == 1000

Prompts == {<<"b", "t", "n">>, <<"r", "e", "d">>, <<"n", "o">>}
RefinePrompts == {<<"r", "e", "d">>, <<"r">>}
ImagePrompts == {<<"n", "o">>, <<>>}
NoContext == [isIteration |-> FALSE, typescript |-> FALSE]
Contexts ==
    {NoContext, [isIteration |-> TRUE, typescript |-> FALSE], [isIteration |-> FALSE, typescript |-> TRUE]}

\* The provider's texts in the ledger runs.
JsonJsxOnly == <<LB, "jsx:<span/>", RB>>
ProviderTexts == {JsonFull, JsonJsxOnly, <<>>}
Outcomes == {ErrorOutcome, NullOutcome} \cup {TextOutcome(t) : t \in ProviderTexts}

\* The provider's behaviour per model, up to the attempt that ends the loop:
\* the first k models are rejected, model k + 1 behaves as o.
Pattern(k, o) ==
    [i \in 1..NumModels |-> IF i <= k THEN ErrorOutcome ELSE IF i = k + 1 THEN o ELSE ErrorOutcome]
\* Every model rejected; the first model answering; an empty completion; the
\* last model answering after the others were rejected.
OutcomePatterns ==
    { Pattern(0, ErrorOutcome), Pattern(0, TextOutcome(JsonFull)), Pattern(0, TextOutcome(<<>>)),
      Pattern(NumModels - 1, TextOutcome(JsonJsxOnly)) }
AllFail(outcomes) == \A i \in 1..NumModels : outcomes[i].kind # "text"
NotCalled == Pattern(0, ErrorOutcome)

\* op: the route; status and detail: the HTTP status and what the error body
\* tells; ctx: the request's context; payload: generatedCode / refinedCode of
\* the body; source: where the payload came from ("cache", "model", "mock").
Response(op, status, detail, ctx, payload, source) ==
    [op |-> op, status |-> status, detail |-> detail, ctx |-> ctx,
     payload |-> payload, source |-> source]

\* `${prompt}_${JSON.stringify(context)}`, base64-encoded under ai_cache:
CacheKey(prompt, ctx) == [prompt |-> prompt, context |-> ctx]

HistEntry(op, prompt) == [op |-> op, prompt |-> prompt]

\* A request as the route saw it: req.user._id and the session id; for
\* POST /ai/generate also cacheKey, what the route got from getCachedAIResponse
\* (NoPayload for a miss and for a read that failed), whether the Redis writes
\* of the request went through, and the number of AIService calls it made.
Request(user, sid, key, lookup, setOk, orchCalls) ==
    [user |-> user, sid |-> sid, key |-> key, lookup |-> lookup,
     setOk |-> setOk, orchCalls |-> orchCalls]
NoKey == CacheKey(<<>>, NoContext)
PlainRequest(user, sid, orchCalls) == Request(user, sid, NoKey, NoPayload, FALSE, orchCalls)

----------------------------------------------------------------------------
(* The ledger routes.  Requests are served one at a time; each action is   *)
(* one request from validation to response.                                *)

\* Joi.string().min(3).max(n).required()
ValidPrompt(prompt, max) == Len(prompt) >= PromptMin /\ Len(prompt) <= max

\* A request ends: the store, the Redis entries, the response.
Finish(storeN, aiCacheN, sessionCacheN, response, histN) ==
    /\ store' = storeN
    /\ prev' = store
    /\ aiCache' = aiCacheN
    /\ sessionCache' = sessionCacheN
    /\ last' = response
    /\ hist' = histN
    /\ opCount' = opCount + 1
    /\ UNCHANGED <<orchVars, parseVars, editorVars, raceVars>>

\* A request ends with an error response and nothing written.
Reject(op, status, detail) ==
    Finish(store, aiCache, sessionCache,
           Response(op, status, detail, NoContext, NoPayload, "none"), hist)

\* redisClient.setSession after a successful save: skipped while Redis is down.
SessionCached(sid, redisUp) == IF redisUp THEN sessionCache \cup {sid} ELSE sessionCache

\* generatedCode.explanation || fallback
Explained(payload, fallback) ==
    IF Truthy(payload.explanation) THEN payload.explanation ELSE fallback

\* A ledger that records the assistant message of a generation only.
GenerateLedger_AssistantOnly(doc, prompt, payload, ctx) ==
    LET cc == IF doc.currentComponent.present THEN doc.currentComponent ELSE EmptyComponent
        replace == ~ctx.isIteration \/ ~Truthy(cc.jsx)
    IN  [doc EXCEPT
            !.chatHistory = Append(doc.chatHistory,
                  Message("assistant", Explained(payload, GeneratedOk), FALSE, UNDEF, FALSE,
                          Code(payload.jsx, payload.css, ctx.typescript))),
            !.componentVersions =
                IF replace /\ HasCode(cc) THEN Append(@, Snapshot(cc)) ELSE @,
            !.currentComponent =
                IF replace THEN Comp(payload.jsx, payload.css, ctx.typescript) ELSE cc]

\* A ledger that archives on every replacement, empty placeholder or not.
GenerateLedger_AlwaysArchive(doc, prompt, payload, ctx) ==
    LET cc == IF doc.currentComponent.present THEN doc.currentComponent ELSE EmptyComponent
        replace == ~ctx.isIteration \/ ~Truthy(cc.jsx)
    IN  [doc EXCEPT
            !.chatHistory = doc.chatHistory \o
                <<Message("user", prompt, FALSE, UNDEF, FALSE, NoCode),
                  Message("assistant", Explained(payload, GeneratedOk), FALSE, UNDEF, FALSE,
                          Code(payload.jsx, payload.css, ctx.typescript))>>,
            !.componentVersions = IF replace THEN Append(@, Snapshot(cc)) ELSE @,
            !.currentComponent =
                IF replace THEN Comp(payload.jsx, payload.css, ctx.typescript) ELSE cc]

\* POST /ai/generate, the ledger part: the two chat messages, the archive and
\* the replacement of currentComponent.
GenerateLedger(doc, prompt, payload, ctx) ==
    LET cc == IF doc.currentComponent.present THEN doc.currentComponent ELSE EmptyComponent
        replace == ~ctx.isIteration \/ ~Truthy(cc.jsx)
    IN  [doc EXCEPT
            !.chatHistory = doc.chatHistory \o
                <<Message("user", prompt, FALSE, UNDEF, FALSE, NoCode),
                  Message("assistant", Explained(payload, GeneratedOk), FALSE, UNDEF, FALSE,
                          Code(payload.jsx, payload.css, ctx.typescript))>>,
            !.componentVersions =
                IF replace /\ HasCode(cc) THEN Append(@, Snapshot(cc)) ELSE @,
            !.currentComponent =
                IF replace THEN Comp(payload.jsx, payload.css, ctx.typescript) ELSE cc]

\* A generate that answers 500 when the cache lookup throws.
Generate_SurfacesCacheFailure ==
    /\ opCount < MaxOps
    /\ \E user \in Users, sid \in RequestIds, prompt \in Prompts :
        IF ~ValidPrompt(prompt, PromptMax)
        THEN Reject("generate", 400, "Validation failed") /\ req' = PlainRequest(user, sid, 0)
        ELSE IF ~FindOne(sid, user)
        THEN Reject("generate", 404, "Session not found") /\ req' = PlainRequest(user, sid, 0)
        ELSE \E ctx \in Contexts, getOk \in BOOLEAN, setOk \in BOOLEAN :
            LET key == CacheKey(prompt, ctx)
                \* getCachedAIResponse throws while Redis is down; the route swallows it
                lookup == IF getOk /\ key \in DOMAIN aiCache THEN aiCache[key] ELSE NoPayload
                hit == Truthy(lookup.jsx)
            IN  \E outcomes \in (IF hit THEN {NotCalled} ELSE OutcomePatterns) :
                LET generated == IF hit THEN lookup ELSE generateComponent(prompt, outcomes)
                    source == IF hit THEN "cache" ELSE IF AllFail(outcomes) THEN "mock" ELSE "model"
                    \* cacheAIResponse: skipped or failing while Redis is down
                    cacheN == IF ~hit /\ setOk
                              THEN [k \in DOMAIN aiCache \cup {key} |->
                                        IF k = key THEN generated ELSE aiCache[k]]
                              ELSE aiCache
                    request == Request(user, sid, key, lookup, setOk, IF hit THEN 0 ELSE 1)
                IN  /\ req' = request
                    /\ IF ~getOk
                       THEN Finish(store, aiCache, sessionCache,
                                   Response("generate", 500, "Redis cache check failed",
                                            NoContext, NoPayload, "none"), hist)
                       ELSE IF ~Truthy(generated.jsx)
                       THEN \* "AI service response missing jsx property"
                            Finish(store, aiCache, sessionCache,
                                   Response("generate", 500, "AI service response missing jsx property",
                                            NoContext, NoPayload, source), hist)
                       ELSE \E saveOk \in BOOLEAN :
                           IF saveOk
                           THEN Finish(SavedStore(sid, GenerateLedger(store[sid], prompt, generated, ctx)),
                                       cacheN, SessionCached(sid, setOk),
                                       Response("generate", 200, "ok", ctx, generated, source),
                                       Append(hist, HistEntry("generate", prompt)))
                           ELSE Finish(store, cacheN, sessionCache,
                                       Response("generate", 500, "save failed",
                                                NoContext, NoPayload, "none"), hist)

\* POST /ai/generate
Generate ==
    /\ opCount < MaxOps
    /\ \E user \in Users, sid \in RequestIds, prompt \in Prompts :
        IF ~ValidPrompt(prompt, PromptMax)
        THEN Reject("generate", 400, "Validation failed") /\ req' = PlainRequest(user, sid, 0)
        ELSE IF ~FindOne(sid, user)
        THEN Reject("generate", 404, "Session not found") /\ req' = PlainRequest(user, sid, 0)
        ELSE \E ctx \in Contexts, getOk \in BOOLEAN, setOk \in BOOLEAN :
            LET key == CacheKey(prompt, ctx)
                \* getCachedAIResponse throws while Redis is down; the route swallows it
                lookup == IF getOk /\ key \in DOMAIN aiCache THEN aiCache[key] ELSE NoPayload
                hit == Truthy(lookup.jsx)
            IN  \E outcomes \in (IF hit THEN {NotCalled} ELSE OutcomePatterns) :
                LET generated == IF hit THEN lookup ELSE generateComponent(prompt, outcomes)
                    source == IF hit THEN "cache" ELSE IF AllFail(outcomes) THEN "mock" ELSE "model"
                    \* cacheAIResponse: skipped or failing while Redis is down
                    cacheN == IF ~hit /\ setOk
                              THEN [k \in DOMAIN aiCache \cup {key} |->
                                        IF k = key THEN generated ELSE aiCache[k]]
                              ELSE aiCache
                    request == Request(user, sid, key, lookup, setOk, IF hit THEN 0 ELSE 1)
                IN  /\ req' = request
                    /\ IF ~Truthy(generated.jsx)
                       THEN \* "AI service response missing jsx property"
                            Finish(store, aiCache, sessionCache,
                                   Response("generate", 500, "AI service response missing jsx property",
                                            NoContext, NoPayload, source), hist)
                       ELSE \E saveOk \in BOOLEAN :
                           IF saveOk
                           THEN Finish(SavedStore(sid, GenerateLedger(store[sid], prompt, generated, ctx)),
                                       cacheN, SessionCached(sid, setOk),
                                       Response("generate", 200, "ok", ctx, generated, source),
                                       Append(hist, HistEntry("generate", prompt)))
                           ELSE Finish(store, cacheN, sessionCache,
                                       Response("generate", 500, "save failed",
                                                NoContext, NoPayload, "none"), hist)

OriginalCodes == {[jsx |-> <<"<div/>">>, css |-> <<"x">>], [jsx |-> <<"<div/>">>, css |-> <<>>]}

RefinedOk == <<"Component refined successfully">>

\* A refinement that takes the typescript flag from nowhere: it resets it.
RefineLedger_DropsTypescript(doc, refinementPrompt, refined) ==
    LET cc == doc.currentComponent
    IN  [doc EXCEPT
            !.chatHistory = doc.chatHistory \o
                <<Message("user", refinementPrompt, FALSE, UNDEF, TRUE, NoCode),
                  Message("assistant", Explained(refined, RefinedOk), FALSE, UNDEF, TRUE,
                          Code(refined.jsx, refined.css, cc.typescript))>>,
            !.componentVersions = Append(@, Snapshot(cc)),
            !.currentComponent = Comp(refined.jsx, refined.css, FALSE)]

\* POST /ai/refine, the ledger part.
RefineLedger(doc, refinementPrompt, refined) ==
    LET cc == doc.currentComponent
    IN  [doc EXCEPT
            !.chatHistory = doc.chatHistory \o
                <<Message("user", refinementPrompt, FALSE, UNDEF, TRUE, NoCode),
                  Message("assistant", Explained(refined, RefinedOk), FALSE, UNDEF, TRUE,
                          Code(refined.jsx, refined.css, cc.typescript))>>,
            !.componentVersions = Append(@, Snapshot(cc)),
            !.currentComponent = Comp(refined.jsx, refined.css, cc.typescript)]

\* A refinement that looks its prompt up in the response cache, as generate does.
Refine_ReadsCache ==
    /\ opCount < MaxOps
    /\ \E user \in Users, sid \in RequestIds, prompt \in RefinePrompts, original \in OriginalCodes :
        /\ req' = PlainRequest(user, sid,
                     IF /\ ValidPrompt(prompt, RefinePromptMax) /\ Truthy(original.jsx)
                        /\ Truthy(original.css) /\ FindOne(sid, user)
                        /\ store[sid].currentComponent.present
                     THEN 1 ELSE 0)
        /\ IF ~(ValidPrompt(prompt, RefinePromptMax) /\ Truthy(original.jsx) /\ Truthy(original.css))
           THEN Reject("refine", 400, "Validation failed")
           ELSE IF ~FindOne(sid, user) THEN Reject("refine", 404, "Session not found")
           ELSE IF ~store[sid].currentComponent.present
           THEN \* session.currentComponent.typescript: TypeError on an absent subdocument
                Reject("refine", 500, "TypeError")
           ELSE \E outcomes \in OutcomePatterns, saveOk \in BOOLEAN :
               LET key == CacheKey(prompt, [isIteration |-> TRUE,
                                            typescript |-> store[sid].currentComponent.typescript])
                   hit == key \in DOMAIN aiCache /\ Truthy(aiCache[key].jsx)
                   refined == IF hit THEN aiCache[key] ELSE generateComponent(prompt, outcomes)
                   source == IF hit THEN "cache" ELSE IF AllFail(outcomes) THEN "mock" ELSE "model"
               IN  IF saveOk
                   THEN Finish(SavedStore(sid, RefineLedger(store[sid], prompt, refined)),
                               aiCache, sessionCache,
                               Response("refine", 200, "ok", NoContext, refined, source),
                               Append(hist, HistEntry("refine", prompt)))
                   ELSE Reject("refine", 500, "save failed")

\* A refinement that saves the chat messages before it saves the rest.
Refine_SavesChatFirst ==
    /\ opCount < MaxOps
    /\ \E user \in Users, sid \in RequestIds, prompt \in RefinePrompts, original \in OriginalCodes :
        /\ req' = PlainRequest(user, sid,
                     IF /\ ValidPrompt(prompt, RefinePromptMax) /\ Truthy(original.jsx)
                        /\ Truthy(original.css) /\ FindOne(sid, user)
                        /\ store[sid].currentComponent.present
                     THEN 1 ELSE 0)
        /\ IF ~(ValidPrompt(prompt, RefinePromptMax) /\ Truthy(original.jsx) /\ Truthy(original.css))
           THEN Reject("refine", 400, "Validation failed")
           ELSE IF ~FindOne(sid, user) THEN Reject("refine", 404, "Session not found")
           ELSE IF ~store[sid].currentComponent.present
           THEN Reject("refine", 500, "TypeError")
           ELSE \E outcomes \in OutcomePatterns, saveOk \in BOOLEAN :
               LET refined == generateComponent(prompt, outcomes)
                   source == IF AllFail(outcomes) THEN "mock" ELSE "model"
               IN  IF saveOk
                   THEN Finish(SavedStore(sid, RefineLedger(store[sid], prompt, refined)),
                               aiCache, sessionCache,
                               Response("refine", 200, "ok", NoContext, refined, source),
                               Append(hist, HistEntry("refine", prompt)))
                   ELSE Finish(SavedStore(sid, [store[sid] EXCEPT !.chatHistory =
                                   RefineLedger(store[sid], prompt, refined).chatHistory]),
                               aiCache, sessionCache,
                               Response("refine", 500, "save failed", NoContext, NoPayload, "none"),
                               hist)

\* POST /ai/refine
Refine ==
    /\ opCount < MaxOps
    /\ \E user \in Users, sid \in RequestIds, prompt \in RefinePrompts, original \in OriginalCodes :
        /\ req' = PlainRequest(user, sid,
                     IF /\ ValidPrompt(prompt, RefinePromptMax) /\ Truthy(original.jsx)
                        /\ Truthy(original.css) /\ FindOne(sid, user)
                        /\ store[sid].currentComponent.present
                     THEN 1 ELSE 0)
        /\ IF ~(ValidPrompt(prompt, RefinePromptMax) /\ Truthy(original.jsx) /\ Truthy(original.css))
           THEN Reject("refine", 400, "Validation failed")
           ELSE IF ~FindOne(sid, user) THEN Reject("refine", 404, "Session not found")
           ELSE IF ~store[sid].currentComponent.present
           THEN \* session.currentComponent.typescript: TypeError on an absent subdocument
                Reject("refine", 500, "TypeError")
           ELSE \E outcomes \in OutcomePatterns, saveOk \in BOOLEAN :
               LET refined == generateComponent(prompt, outcomes)
                   source == IF AllFail(outcomes) THEN "mock" ELSE "model"
               IN  IF saveOk
                   THEN Finish(SavedStore(sid, RefineLedger(store[sid], prompt, refined)),
                               aiCache, sessionCache,
                               Response("refine", 200, "ok", NoContext, refined, source),
                               Append(hist, HistEntry("refine", prompt)))
                   ELSE Reject("refine", 500, "save failed")

ImageUrl == <<"data:image/png;base64,AAAA">>
ImageNote == <<"[Image analysis would go here - describing the uploaded image elements and layout]">>
FromImage == <<"Component generated from image and prompt">>

\* An image generation that archives nothing.
ImageLedger_NeverArchives(doc, prompt, generated) ==
    [doc EXCEPT
        !.chatHistory = doc.chatHistory \o
            <<Message("user", prompt, TRUE, ImageUrl, FALSE, NoCode),
              Message("assistant", Explained(generated, FromImage), FALSE, UNDEF, FALSE,
                      Code(generated.jsx, generated.css, FALSE))>>,
        !.currentComponent = Comp(generated.jsx, generated.css, FALSE)]

\* POST /ai/generate-with-image, the ledger part.
ImageLedger(doc, prompt, generated) ==
    LET cc == doc.currentComponent
    IN  [doc EXCEPT
            !.chatHistory = doc.chatHistory \o
                <<Message("user", prompt, TRUE, ImageUrl, FALSE, NoCode),
                  Message("assistant", Explained(generated, FromImage), FALSE, UNDEF, FALSE,
                          Code(generated.jsx, generated.css, FALSE))>>,
            !.componentVersions = IF HasCode(cc) THEN Append(@, Snapshot(cc)) ELSE @,
            !.currentComponent = Comp(generated.jsx, generated.css, FALSE)]

\* POST /ai/generate-with-image
GenerateWithImage ==
    /\ opCount < MaxOps
    /\ \E user \in Users, sid \in RequestIds, prompt \in ImagePrompts, hasFile \in BOOLEAN :
        /\ req' = PlainRequest(user, sid,
                     IF hasFile /\ Truthy(prompt) /\ FindOne(sid, user) THEN 1 ELSE 0)
        /\ IF ~hasFile \/ ~Truthy(prompt) THEN Reject("image", 400, "Validation failed")
           ELSE IF ~FindOne(sid, user) THEN Reject("image", 404, "Session not found")
           ELSE \E outcomes \in OutcomePatterns :
               LET generated == generateComponent(prompt \o <<NL, NL>> \o ImageNote, outcomes)
                   source == IF AllFail(outcomes) THEN "mock" ELSE "model"
               IN  IF ~store[sid].currentComponent.present
                   THEN \* session.currentComponent.jsx: TypeError on an absent subdocument
                        Reject("image", 500, "TypeError")
                   ELSE \E saveOk \in BOOLEAN :
                       IF saveOk
                       THEN Finish(SavedStore(sid, ImageLedger(store[sid], prompt, generated)),
                                   aiCache, sessionCache,
                                   Response("image", 200, "ok", NoContext, generated, source),
                                   Append(hist, HistEntry("image", prompt)))
                       ELSE Reject("image", 500, "save failed")

\* The currentComponent of a PUT body: absent, or an object with any of its
\* three keys (a key that is not given is UNDEF, typescript has its own flag).
Patch(jsx, css, tsGiven, ts) ==
    [given |-> TRUE, jsx |-> jsx, css |-> css, tsGiven |-> tsGiven, typescript |-> ts]
NoPatch == [given |-> FALSE, jsx |-> UNDEF, css |-> UNDEF, tsGiven |-> FALSE, typescript |-> FALSE]

UpdateBodies ==
    { [title |-> <<"Renamed">>, tags |-> <<"ui">>, currentComponent |-> NoPatch],
      [title |-> UNDEF, tags |-> UNDEF, currentComponent |-> Patch(UNDEF, UNDEF, FALSE, FALSE)],
      [title |-> UNDEF, tags |-> UNDEF, currentComponent |-> Patch(<<"<p/>">>, UNDEF, FALSE, FALSE)],
      [title |-> UNDEF, tags |-> UNDEF, currentComponent |-> Patch(UNDEF, <<"y">>, FALSE, FALSE)],
      [title |-> UNDEF, tags |-> UNDEF, currentComponent |-> Patch(<<"<p/>">>, <<"y">>, TRUE, TRUE)],
      [title |-> UNDEF, tags |-> UNDEF, currentComponent |-> Patch(<<"<p/>">>, <<>>, TRUE, FALSE)] }

\* updateSessionSchema: Joi.string() does not accept the empty string.
ValidUpdate(body) ==
    /\ body.title # <<>>
    /\ body.currentComponent.jsx # <<>>
    /\ body.currentComponent.css # <<>>

\* { ...session.currentComponent, ...req.body.currentComponent }, assigned to
\* session.currentComponent.  The left operand is the subdocument the store
\* loaded, and the spread copies its own enumerable properties.  Where jsx,
\* css and typescript are own properties of it (own = TRUE) the keys the body
\* leaves out keep their values; where the store keeps them behind accessors
\* (own = FALSE) the spread carries none of them, and the assignment fills
\* the keys the body leaves out with the defaults of componentStateSchema.
Spread(cc, patch, own) ==
    Comp(IF patch.jsx # UNDEF THEN patch.jsx ELSE IF own THEN cc.jsx ELSE <<>>,
         IF patch.css # UNDEF THEN patch.css ELSE IF own THEN cc.css ELSE <<>>,
         IF patch.tsGiven THEN patch.typescript ELSE IF own THEN cc.typescript ELSE FALSE)

\* A manual edit that keeps only the latest snapshot.
UpdateLedger_KeepsLatestOnly(doc, body, own) ==
    LET cc == doc.currentComponent
        patch == body.currentComponent
    IN  [doc EXCEPT
            !.title = IF Truthy(body.title) THEN body.title ELSE @,
            !.tags = IF body.tags # UNDEF THEN body.tags ELSE @,
            !.componentVersions =
                IF patch.given /\ HasCode(cc) THEN <<Snapshot(cc)>> ELSE @,
            !.currentComponent = IF patch.given THEN Spread(cc, patch, own) ELSE @]

\* PUT /sessions/:id, the ledger part.
UpdateLedger(doc, body, own) ==
    LET cc == doc.currentComponent
        patch == body.currentComponent
    IN  [doc EXCEPT
            !.title = IF Truthy(body.title) THEN body.title ELSE @,
            !.tags = IF body.tags # UNDEF THEN body.tags ELSE @,
            !.componentVersions =
                IF patch.given /\ HasCode(cc) THEN Append(@, Snapshot(cc)) ELSE @,
            !.currentComponent = IF patch.given THEN Spread(cc, patch, own) ELSE @]

\* PUT /sessions/:id
UpdateSession ==
    /\ opCount < MaxOps
    /\ \E user \in Users, sid \in RequestIds, body \in UpdateBodies :
        /\ req' = PlainRequest(user, sid, 0)
        /\ IF ~ValidUpdate(body) THEN Reject("update", 400, "Validation failed")
           ELSE IF ~FindOne(sid, user) THEN Reject("update", 404, "Session not found")
           ELSE IF body.currentComponent.given /\ ~store[sid].currentComponent.present
           THEN \* session.currentComponent.jsx: TypeError on an absent subdocument
                Reject("update", 500, "TypeError")
           ELSE \E redisUp \in BOOLEAN, saveOk \in BOOLEAN, own \in BOOLEAN :
               IF saveOk
               THEN Finish(SavedStore(sid, UpdateLedger(store[sid], body, own)),
                           aiCache, SessionCached(sid, redisUp),
                           Response("update", 200, "ok", NoContext, NoPayload, "none"),
                           Append(hist, HistEntry("update", <<>>)))
               ELSE Reject("update", 500, "save failed")

\* The bodies of POST /sessions/:id/chat: role, content and metadata.generatedCode.
ChatBodies ==
    { [role |-> "user", content |-> <<"hello">>, generatedCode |-> NoCode],
      [role |-> "assistant", content |-> <<"noted">>, generatedCode |-> NoCode],
      [role |-> "assistant", content |-> <<"pasted">>,
       generatedCode |-> Code(<<"<p/>">>, <<"y">>, FALSE)],
      [role |-> "user", content |-> <<>>, generatedCode |-> NoCode] }

\* messageSchema: content is Joi.string().required()
ValidChat(body) == body.content # <<>>

\* An added message that goes to the front of the history.
ChatLedger_Prepends(doc, body) ==
    [doc EXCEPT !.chatHistory =
        <<Message(body.role, body.content, FALSE, UNDEF, FALSE, body.generatedCode)>> \o @]

\* POST /sessions/:id/chat, the ledger part.
ChatLedger(doc, body) ==
    [doc EXCEPT !.chatHistory =
        Append(@, Message(body.role, body.content, FALSE, UNDEF, FALSE, body.generatedCode))]

\* POST /sessions/:id/chat
AddChatMessage ==
    /\ opCount < MaxOps
    /\ \E user \in Users, sid \in RequestIds, body \in ChatBodies :
        /\ req' = PlainRequest(user, sid, 0)
        /\ IF ~ValidChat(body) THEN Reject("chat", 400, "Validation failed")
           ELSE IF ~FindOne(sid, user) THEN Reject("chat", 404, "Session not found")
           ELSE \E saveOk \in BOOLEAN :
               IF saveOk
               THEN Finish(SavedStore(sid, ChatLedger(store[sid], body)), aiCache, sessionCache,
                           Response("chat", 200, "ok", NoContext, NoPayload, "none"),
                           Append(hist, HistEntry("chat", body.content)))
               ELSE Reject("chat", 500, "save failed")

\* GET /sessions/:id/export, the ledger part.
\* An export that counts itself twice.
ExportLedger_CountsTwice(doc) == [doc EXCEPT !.stats.exportsCount = @ + 2]

ExportLedger(doc) == [doc EXCEPT !.stats.exportsCount = @ + 1]

\* GET /sessions/:id/export
ExportSession ==
    /\ opCount < MaxOps
    /\ \E user \in Users, sid \in RequestIds :
        /\ req' = PlainRequest(user, sid, 0)
        /\ IF ~FindOne(sid, user) THEN Reject("export", 404, "Session not found")
           ELSE \E saveOk \in BOOLEAN :
               IF saveOk
               THEN Finish(SavedStore(sid, ExportLedger(store[sid])), aiCache, sessionCache,
                           Response("export", 200, "ok", NoContext, NoPayload, "none"),
                           Append(hist, HistEntry("export", <<>>)))
               ELSE Reject("export", 500, "save failed")

\* DELETE /sessions/:id, the ledger part.
DeleteLedger(doc) == [doc EXCEPT !.isActive = FALSE]

\* DELETE /sessions/:id
DeleteSession ==
    /\ opCount < MaxOps
    /\ \E user \in Users, sid \in RequestIds :
        /\ req' = PlainRequest(user, sid, 0)
        /\ IF ~FindOne(sid, user) THEN Reject("delete", 404, "Session not found")
           ELSE \E redisUp \in BOOLEAN, saveOk \in BOOLEAN :
               IF saveOk
               THEN Finish(SavedStore(sid, DeleteLedger(store[sid])), aiCache,
                           \* redisClient.deleteSession throws while Redis is down
                           IF redisUp THEN sessionCache \ {sid} ELSE sessionCache,
                           Response("delete", 200, "ok", NoContext, NoPayload, "none"),
                           Append(hist, HistEntry("delete", <<>>)))
               ELSE Reject("delete", 500, "save failed")

\* GET /sessions/:id.  A session:<id> entry carries the userId of the session
\* it was written for; with an entry of the caller the document is read by
\* Session.findById, else by Session.findOne({_id, userId, isActive: true}).
\* The route saves the document it found (lastAccessed).
GetSession ==
    /\ opCount < MaxOps
    /\ \E user \in Users, sid \in RequestIds, getOk \in BOOLEAN, saveOk \in BOOLEAN :
        LET \* redisClient.getSession throws while Redis is down; the route swallows it
            cachedSession == getOk /\ sid \in sessionCache /\ sid \in DOMAIN store
            byId == cachedSession /\ store[sid].userId = user
        IN  /\ req' = PlainRequest(user, sid, 0)
            /\ IF ~(byId \/ FindOne(sid, user)) THEN Reject("get", 404, "Session not found")
               ELSE IF saveOk
               THEN Finish(SavedStore(sid, store[sid]), aiCache, sessionCache,
                           Response("get", 200, "ok", NoContext, NoPayload, "none"), hist)
               ELSE Reject("get", 500, "save failed")

----------------------------------------------------------------------------
(* The specifications                                                      *)

NoResponse == Response("none", 0, "none", NoContext, NoPayload, "none")
NoRequest == PlainRequest("none", "none", 0)

\* An ai_cache entry written by something else than POST /ai/generate: it has
\* no jsx.
InvalidCached == [jsx |-> <<>>, css |-> <<"x">>, explanation |-> UNDEF]
ForeignCache == [k \in {CacheKey(<<"b", "t", "n">>, NoContext)} |-> InvalidCached]

\* The variables of the two function-level specifications while the ledger runs.
OrchIdle ==
    /\ oPc = "idle" /\ oPrompt = <<>> /\ oOutcome = NotCalled
    /\ oI = 1 /\ oCalls = <<>> /\ oResult = NoPayload
ParseIdle == pPc = "idle" /\ pRaw = <<>> /\ pOut = NoPayload

\* The session page before it is opened.
NotFetched == [jsx |-> UNDEF, css |-> UNDEF, typescript |-> FALSE]
NoEdit == [jsx |-> <<>>, css |-> <<>>]
EditorIdle ==
    /\ mounted = FALSE /\ currentCode = <<>> /\ currentCSS = <<>>
    /\ saveTimeoutRef = 0 /\ timers = {}
    /\ session = NotFetched /\ fetching = FALSE /\ mutations = {}
    /\ remote = [jsx |-> <<>>, css |-> <<>>, typescript |-> FALSE]
    /\ sent = <<>> /\ quiet = 0 /\ lastEdit = NoEdit /\ edits = 0 /\ eLast = "none"

\* The ledger after POST /sessions created session s1 for u1.  The document
\* never assigned currentComponent: it is absent where the store keeps an
\* unset subdocument unset (the case POST /ai/generate initialises), and the
\* schema's empty defaults otherwise.  Redis is shared: ai_cache may hold an
\* entry this program did not write.
LedgerInit ==
    /\ \/ /\ store = [sid \in StoredIds |-> NewSession(NoComponent)]
          /\ aiCache = <<>>
       \/ /\ store = [sid \in StoredIds |-> NewSession(EmptyComponent)]
          /\ aiCache = ForeignCache
    /\ prev = store
    /\ req = NoRequest
    /\ sessionCache = StoredIds
    /\ last = NoResponse
    /\ opCount = 0
    /\ hist = <<>>

\* No pair of concurrent requests is under way.
Requests == {1, 2}
NoOp == [kind |-> "none", prompt |-> <<>>, ctx |-> NoContext, payload |-> NoPayload,
         body |-> [title |-> UNDEF, tags |-> UNDEF, currentComponent |-> NoPatch], own |-> TRUE]
RaceIdle ==
    /\ rDoc = NewSession(NoComponent)
    /\ rPc = [p \in Requests |-> "idle"]
    /\ rOp = [p \in Requests |-> NoOp]
    /\ rLocal = [p \in Requests |-> NewSession(NoComponent)]
    /\ rSaved = <<>>

Init == LedgerInit /\ OrchIdle /\ ParseIdle /\ EditorIdle /\ RaceIdle

Next ==
    \/ Generate
    \/ Refine
    \/ GenerateWithImage
    \/ UpdateSession
    \/ AddChatMessage
    \/ ExportSession
    \/ DeleteSession
    \/ GetSession

Spec == Init /\ [][Next]_vars

----------------------------------------------------------------------------
(* AIService.generateComponent, one provider call per step                 *)

LedgerIdle ==
    /\ store = [sid \in StoredIds |-> NewSession(NoComponent)]
    /\ prev = store
    /\ req = NoRequest
    /\ aiCache = <<>>
    /\ sessionCache = StoredIds
    /\ last = NoResponse
    /\ opCount = 0
    /\ hist = <<>>

\* The provider's texts and behaviours in the orchestrator runs.
OrchOutcomes == {ErrorOutcome, NullOutcome, TextOutcome(JsonFull), TextOutcome(<<>>)}

\* generateComponent(prompt, context) is entered: i = 0 (model 1 here).
OrchInit ==
    /\ oPc = "loop"
    /\ oPrompt \in {<<"b", "t", "n">>, <<"n", "a", "v">>}
    /\ oOutcome \in [1..NumModels -> OrchOutcomes]
    /\ oI = 1
    /\ oCalls = <<>>
    /\ oResult = NoPayload

\* A loop that goes on to the next model after a model answered.
OrchSuccess_KeepsTrying ==
    /\ oPc = "loop"
    /\ oOutcome[oI].kind = "text"
    /\ oCalls' = Append(oCalls, oI)
    /\ oResult' = parseResponse(oOutcome[oI].text)
    /\ oPc' = IF oI = NumModels THEN "returned" ELSE "loop"
    /\ oI' = IF oI = NumModels THEN oI ELSE oI + 1
    /\ UNCHANGED <<oPrompt, oOutcome, ledgerVars, parseVars, editorVars, raceVars>>

\* The provider answers model oI with a text: parse it and return.
OrchSuccess ==
    /\ oPc = "loop"
    /\ oOutcome[oI].kind = "text"
    /\ oCalls' = Append(oCalls, oI)
    /\ oResult' = parseResponse(oOutcome[oI].text)
    /\ oPc' = "returned"
    /\ UNCHANGED <<oPrompt, oOutcome, oI, ledgerVars, parseVars, editorVars, raceVars>>

\* The attempt on model oI throws and oI is not the last model: continue.
OrchNextModel ==
    /\ oPc = "loop"
    /\ oOutcome[oI].kind # "text"
    /\ oI # NumModels
    /\ oCalls' = Append(oCalls, oI)
    /\ oI' = oI + 1
    /\ UNCHANGED <<oPc, oPrompt, oOutcome, oResult, ledgerVars, parseVars, editorVars, raceVars>>

\* A loop that falls out of its body after the last failure: no value returned.
OrchMock_ReturnsNothing ==
    /\ oPc = "loop"
    /\ oOutcome[oI].kind # "text"
    /\ oI = NumModels
    /\ oCalls' = Append(oCalls, oI)
    /\ oResult' = NoPayload
    /\ oPc' = "returned"
    /\ UNCHANGED <<oPrompt, oOutcome, oI, ledgerVars, parseVars, editorVars, raceVars>>

\* The attempt on the last model throws: return the mock component.
OrchMock ==
    /\ oPc = "loop"
    /\ oOutcome[oI].kind # "text"
    /\ oI = NumModels
    /\ oCalls' = Append(oCalls, oI)
    /\ oResult' = getMockComponent(oPrompt)
    /\ oPc' = "returned"
    /\ UNCHANGED <<oPrompt, oOutcome, oI, ledgerVars, parseVars, editorVars, raceVars>>

OrchNext == OrchSuccess \/ OrchNextModel \/ OrchMock

InitOrch == LedgerIdle /\ OrchInit /\ ParseIdle /\ EditorIdle /\ RaceIdle

SpecOrch == InitOrch /\ [][OrchNext]_vars

\* The loop is scheduled until it returns.
FairSpecOrch == SpecOrch /\ WF_vars(OrchNext)

----------------------------------------------------------------------------
(* AIService.parseResponse on one raw text                                 *)

ParseInit == pPc = "called" /\ pRaw \in RawInputs /\ pOut = NoPayload

Parse ==
    /\ pPc = "called"
    /\ pOut' = parseResponse(pRaw)
    /\ pPc' = "returned"
    /\ UNCHANGED <<pRaw, ledgerVars, orchVars, editorVars, raceVars>>

ParseNext == Parse

InitParse == LedgerIdle /\ OrchIdle /\ ParseInit /\ EditorIdle /\ RaceIdle

SpecParse == InitParse /\ [][ParseNext]_vars

----------------------------------------------------------------------------
(* SessionPage: the editor buffers and their debounced save                *)

MaxEdits == 3
\* The 1000 ms of the save timeout, in ticks of the page's clock.
DebounceTicks == 2

\* What the user types into the two editors (the empty text: the editor cleared).
CodeEdits == {<<"<a/>">>, <<"<b/>">>, <<>>}
CSSEdits == {<<"x">>, <<>>}

\* The currentComponent of the session when the page is opened.
InitialRemotes ==
    { [jsx |-> <<>>, css |-> <<>>, typescript |-> FALSE],
      [jsx |-> <<"<s/>">>, css |-> <<"s">>, typescript |-> TRUE] }

\* A pending setTimeout: its id, the jsx and css its callback closed over, and
\* the ticks left until it is due.
Timer(id, jsx, css, left) == [id |-> id, jsx |-> jsx, css |-> css, left |-> left]

\* The argument of updateSessionMutation.mutate.
Update(jsx, css) == [jsx |-> jsx, css |-> css, typescript |-> FALSE]

\* A save function that sets its timeout without clearing the one before.
saveChanges_NoClear(jsx, css) ==
    /\ timers' = timers \cup {Timer(edits + 1, jsx, css, DebounceTicks)}
    /\ saveTimeoutRef' = edits + 1

\* saveChanges: clearTimeout(saveTimeoutRef.current), then setTimeout(..., 1000).
saveChanges(jsx, css) ==
    /\ timers' = {t \in timers : t.id # saveTimeoutRef}
                     \cup {Timer(edits + 1, jsx, css, DebounceTicks)}
    /\ saveTimeoutRef' = edits + 1

\* The part common to the two change handlers.  The editors are rendered once
\* the session query has data.
Edited ==
    /\ edits' = edits + 1
    /\ quiet' = 0
    /\ lastEdit' = [jsx |-> currentCode', css |-> currentCSS']
    /\ eLast' = "edit"
    /\ UNCHANGED <<mounted, session, fetching, mutations, remote, sent>>

handleCodeChange ==
    /\ mounted /\ session # NotFetched /\ edits < MaxEdits
    /\ \E code \in CodeEdits :
        /\ currentCode' = code
        /\ currentCSS' = currentCSS
        /\ saveChanges(code, currentCSS)
    /\ Edited
    /\ UNCHANGED <<ledgerVars, orchVars, parseVars, raceVars>>

handleCSSChange ==
    /\ mounted /\ session # NotFetched /\ edits < MaxEdits
    /\ \E css \in CSSEdits :
        /\ currentCSS' = css
        /\ currentCode' = currentCode
        /\ saveChanges(currentCode, css)
    /\ Edited
    /\ UNCHANGED <<ledgerVars, orchVars, parseVars, raceVars>>

\* One tick of time passes; a timer that is due may still wait for its turn.
Tick ==
    /\ quiet < DebounceTicks \/ \E t \in timers : t.left > 0
    /\ timers' = {Timer(t.id, t.jsx, t.css, Max({0, t.left - 1})) : t \in timers}
    /\ quiet' = Min({quiet + 1, DebounceTicks})
    /\ eLast' = "tick"
    /\ UNCHANGED <<mounted, currentCode, currentCSS, saveTimeoutRef, session, fetching,
                   mutations, remote, sent, lastEdit, edits>>
    /\ UNCHANGED <<ledgerVars, orchVars, parseVars, raceVars>>

\* A timeout callback that sends nothing.
SaveTimeout_Forgets ==
    /\ \E t \in timers :
        /\ t.left = 0
        /\ timers' = timers \ {t}
    /\ eLast' = "fire"
    /\ UNCHANGED <<mounted, currentCode, currentCSS, saveTimeoutRef, session, fetching,
                   mutations, sent, remote, quiet, lastEdit, edits>>
    /\ UNCHANGED <<ledgerVars, orchVars, parseVars, raceVars>>

\* The callback of a timer that is due: updateSessionMutation.mutate({currentComponent}).
SaveTimeout ==
    /\ \E t \in timers :
        /\ t.left = 0
        /\ timers' = timers \ {t}
        /\ sent' = Append(sent, Update(t.jsx, t.css))
        /\ mutations' = mutations \cup {Update(t.jsx, t.css)}
    /\ eLast' = "fire"
    /\ UNCHANGED <<mounted, currentCode, currentCSS, saveTimeoutRef, session, fetching,
                   remote, quiet, lastEdit, edits>>
    /\ UNCHANGED <<ledgerVars, orchVars, parseVars, raceVars>>

\* A PUT of updateSessionMutation is answered.  The server refuses a body with
\* an empty jsx or css (updateSessionSchema); otherwise it stores the
\* component and onSuccess invalidates the session query, which refetches.
UpdateSessionSettled ==
    /\ \E u \in mutations :
        /\ mutations' = mutations \ {u}
        /\ IF ValidUpdate([title |-> UNDEF, tags |-> UNDEF,
                           currentComponent |-> Patch(u.jsx, u.css, TRUE, u.typescript)])
           THEN remote' = u /\ fetching' = mounted
           ELSE UNCHANGED <<remote, fetching>>
    /\ eLast' = "settled"
    /\ UNCHANGED <<mounted, currentCode, currentCSS, saveTimeoutRef, timers, session,
                   sent, quiet, lastEdit, edits>>
    /\ UNCHANGED <<ledgerVars, orchVars, parseVars, raceVars>>

\* The session query resolves, and the effect on [session] copies a non-empty
\* jsx and a non-empty css of the fetched session into the buffers.
SessionFetched ==
    /\ mounted /\ fetching
    /\ fetching' = FALSE
    /\ session' = remote
    /\ currentCode' = IF Truthy(remote.jsx) THEN remote.jsx ELSE currentCode
    /\ currentCSS' = IF Truthy(remote.css) THEN remote.css ELSE currentCSS
    /\ eLast' = "fetched"
    /\ UNCHANGED <<mounted, saveTimeoutRef, timers, mutations, remote, sent, quiet,
                   lastEdit, edits>>
    /\ UNCHANGED <<ledgerVars, orchVars, parseVars, raceVars>>

\* A page that is left without clearing its timeout.
Unmount_KeepsTimer ==
    /\ mounted
    /\ mounted' = FALSE
    /\ fetching' = FALSE
    /\ eLast' = "unmount"
    /\ UNCHANGED <<currentCode, currentCSS, saveTimeoutRef, timers, session, mutations, remote,
                   sent, quiet, lastEdit, edits>>
    /\ UNCHANGED <<ledgerVars, orchVars, parseVars, raceVars>>

\* The page is left: the cleanup of the mount effect clears saveTimeoutRef.current.
Unmount ==
    /\ mounted
    /\ mounted' = FALSE
    /\ fetching' = FALSE
    /\ timers' = {t \in timers : t.id # saveTimeoutRef}
    /\ eLast' = "unmount"
    /\ UNCHANGED <<currentCode, currentCSS, saveTimeoutRef, session, mutations, remote,
                   sent, quiet, lastEdit, edits>>
    /\ UNCHANGED <<ledgerVars, orchVars, parseVars, raceVars>>

\* The page has just been opened: empty buffers, the session query in flight.
EditorInit ==
    /\ mounted = TRUE /\ currentCode = <<>> /\ currentCSS = <<>>
    /\ saveTimeoutRef = 0 /\ timers = {}
    /\ session = NotFetched /\ fetching = TRUE /\ mutations = {}
    /\ remote \in InitialRemotes
    /\ sent = <<>> /\ quiet = 0 /\ lastEdit = NoEdit /\ edits = 0 /\ eLast = "none"

EditorNext ==
    \/ handleCodeChange
    \/ handleCSSChange
    \/ Tick
    \/ SaveTimeout
    \/ UpdateSessionSettled
    \/ SessionFetched
    \/ Unmount

InitEditor == LedgerIdle /\ OrchIdle /\ ParseIdle /\ EditorInit /\ RaceIdle

SpecEditor == InitEditor /\ [][EditorNext]_vars

\* Time passes and the browser runs a timeout that is due.
FairSpecEditor == SpecEditor /\ WF_vars(Tick) /\ WF_vars(SaveTimeout)

----------------------------------------------------------------------------
(* Two requests on one session, each a findOne and a save                  *)

\* The session the two requests meet: new with the schema's empty component,
\* or after one generation.
RaceDocs ==
    { NewSession(EmptyComponent),
      updateStats(GenerateLedger(NewSession(NoComponent), <<"b", "t", "n">>,
                                 parseResponse(JsonFull), NoContext)) }

\* What a request does between its findOne and its save: the ledger part of
\* POST /ai/generate with the payload it got, or of PUT /sessions/:id.
RaceOps ==
    { [NoOp EXCEPT !.kind = "generate", !.prompt = <<"r", "e", "d">>, !.ctx = ctx,
                   !.payload = payload] :
          ctx \in Contexts,
          payload \in {getMockComponent(<<"r", "e", "d">>), parseResponse(JsonJsxOnly)} }
    \cup
    { [NoOp EXCEPT !.kind = "update", !.body = body, !.own = own] :
          body \in {b \in UpdateBodies : ValidUpdate(b)}, own \in BOOLEAN }

\* The document a request holds when it calls save(): the loaded one after the
\* route's assignments and pushes and after the pre-save hook.
Modified(op, loaded) ==
    updateStats(IF op.kind = "generate"
                THEN GenerateLedger(loaded, op.prompt, op.payload, op.ctx)
                ELSE UpdateLedger(loaded, op.body, op.own))

\* The route assigned session.currentComponent.
AssignsComponent(op, loaded) ==
    IF op.kind = "generate"
    THEN ~op.ctx.isIteration \/ ~Truthy(loaded.currentComponent.jsx)
    ELSE op.body.currentComponent.given

\* session.save() of a loaded document: the store is sent the changes made to
\* the loaded document, not the document.  Elements pushed onto an array are
\* appended to the stored array; a path that was assigned, or whose value
\* differs from the loaded one, is set; every other path keeps what is stored.
Save(stored, loaded, modified, assigned) ==
    [stored EXCEPT
        !.chatHistory =
            @ \o SubSeq(modified.chatHistory, Len(loaded.chatHistory) + 1,
                        Len(modified.chatHistory)),
        !.componentVersions =
            @ \o SubSeq(modified.componentVersions, Len(loaded.componentVersions) + 1,
                        Len(modified.componentVersions)),
        !.currentComponent = IF assigned THEN modified.currentComponent ELSE @,
        !.title = IF modified.title # loaded.title THEN modified.title ELSE @,
        !.tags = IF modified.tags # loaded.tags THEN modified.tags ELSE @,
        !.stats.messagesCount =
            IF modified.stats.messagesCount # loaded.stats.messagesCount
            THEN modified.stats.messagesCount ELSE @,
        !.stats.generationsCount =
            IF modified.stats.generationsCount # loaded.stats.generationsCount
            THEN modified.stats.generationsCount ELSE @]

\* Session.findOne of one of the two requests.
RaceLoad ==
    \E p \in Requests, op \in RaceOps :
        /\ rPc[p] = "start"
        /\ rPc' = [rPc EXCEPT ![p] = "loaded"]
        /\ rOp' = [rOp EXCEPT ![p] = op]
        /\ rLocal' = [rLocal EXCEPT ![p] = rDoc]
        /\ UNCHANGED <<rDoc, rSaved>>
        /\ UNCHANGED <<ledgerVars, orchVars, parseVars, editorVars>>

\* session.save() of one of the two requests.
RaceSave ==
    \E p \in Requests :
        LET modified == Modified(rOp[p], rLocal[p])
        IN  /\ rPc[p] = "loaded"
            /\ rPc' = [rPc EXCEPT ![p] = "saved"]
            /\ rDoc' = Save(rDoc, rLocal[p], modified, AssignsComponent(rOp[p], rLocal[p]))
            /\ rSaved' = Append(rSaved, [request |-> p, doc |-> modified,
                                         overlapped |-> \E q \in Requests : rPc[q] = "loaded" /\ q # p])
            /\ UNCHANGED <<rOp, rLocal>>
            /\ UNCHANGED <<ledgerVars, orchVars, parseVars, editorVars>>

RaceInit ==
    /\ rDoc \in RaceDocs
    /\ rPc = [p \in Requests |-> "start"]
    /\ rOp = [p \in Requests |-> NoOp]
    /\ rLocal = [p \in Requests |-> rDoc]
    /\ rSaved = <<>>

RaceNext == RaceLoad \/ RaceSave

InitRace == LedgerIdle /\ OrchIdle /\ ParseIdle /\ EditorIdle /\ RaceInit

SpecRace == InitRace /\ [][RaceNext]_vars

----------------------------------------------------------------------------
(* Generation for two sessions of two users over the one response cache    *)

\* Session s1 of u1 with the default settings, and a session of u2 that was
\* created with settings {framework: "vue", styleFramework: "tailwind"}.
TwoSessions ==
    [sid \in RequestIds |->
        IF sid \in StoredIds THEN NewSession(NoComponent)
        ELSE [NewSession(NoComponent) EXCEPT
                 !.userId = "u2",
                 !.settings = [framework |-> "vue", styleFramework |-> "tailwind"]]]

SharedInit ==
    /\ store = TwoSessions
    /\ prev = store
    /\ req = NoRequest
    /\ aiCache = <<>>
    /\ sessionCache = RequestIds
    /\ last = NoResponse
    /\ opCount = 0
    /\ hist = <<>>

SharedNext == Generate

InitShared == SharedInit /\ OrchIdle /\ ParseIdle /\ EditorIdle /\ RaceIdle

SpecShared == InitShared /\ [][SharedNext]_vars

----------------------------------------------------------------------------
(* Properties of the ledger (specification Spec)                           *)

Doc == store["s1"]
PreDoc == prev["s1"]
Chat == Doc.chatHistory
Succeeded(op) == last.op = op /\ last.status = 200

\* A component that holds code: present, with jsx or css not the empty text.
NonEmptyComponent(cc) == cc.present /\ (cc.jsx # <<>> \/ cc.css # <<>>)

\* C1: strict pairing.  While the successful ledger operations on the session
\* are N generate calls and nothing else, chatHistory has 2N entries, entry
\* 2i-1 is the user message with the prompt of call i and entry 2i is the
\* assistant message with generatedCode; the last pair carries the payload the
\* last call returned.
C1_StrictPairing ==
    (\A i \in 1..Len(hist) : hist[i].op = "generate") =>
        /\ Len(Chat) = 2 * Len(hist)
        /\ \A i \in 1..Len(hist) :
            /\ Chat[2 * i - 1].role = "user"
            /\ Chat[2 * i - 1].content = hist[i].prompt
            /\ ~Chat[2 * i - 1].generatedCode.present
            /\ Chat[2 * i].role = "assistant"
            /\ Chat[2 * i].generatedCode.present
        /\ Succeeded("generate") =>
            /\ Chat[Len(Chat)].generatedCode.jsx = last.payload.jsx
            /\ Chat[Len(Chat)].generatedCode.css = last.payload.css

\* Two successful generate calls with different prompts.
C1_Witness ==
    /\ Len(hist) = 2
    /\ hist[1].op = "generate" /\ hist[2].op = "generate"
    /\ hist[1].prompt # hist[2].prompt
    /\ Succeeded("generate")

\* C2: componentVersions is append-only.  Whatever request finished last
\* (generate, refine, generate-with-image, PUT, chat, export, delete, accepted
\* or not), the versions before it are a prefix of the versions after it.
C2_VersionsAppendOnly ==
    \A sid \in StoredIds :
        /\ IsPrefix(prev[sid].componentVersions, store[sid].componentVersions)
        /\ Len(store[sid].componentVersions) >= Len(prev[sid].componentVersions)

\* A request found one version archived and archived a second one.
C2_Witness ==
    /\ Len(PreDoc.componentVersions) = 1
    /\ Len(Doc.componentVersions) = 2

\* C3: a generate call on the replace branch (not an iteration, or no jsx in
\* the current component) archives the component it found exactly when that
\* component holds code, and installs the payload's jsx and css; so the first
\* plain generation on a new session archives nothing, installs the payload
\* and leaves two chat messages.
C3_GenerateReplace ==
    /\ (Succeeded("generate") /\ (~last.ctx.isIteration \/ ~Truthy(PreDoc.currentComponent.jsx))) =>
        /\ Doc.componentVersions =
              IF NonEmptyComponent(PreDoc.currentComponent)
              THEN Append(PreDoc.componentVersions,
                          [present |-> TRUE,
                           jsx |-> PreDoc.currentComponent.jsx,
                           css |-> PreDoc.currentComponent.css,
                           typescript |-> PreDoc.currentComponent.typescript])
              ELSE PreDoc.componentVersions
        /\ Doc.currentComponent.present
        /\ Doc.currentComponent.jsx = last.payload.jsx
        /\ Doc.currentComponent.css = last.payload.css
    /\ (Len(hist) = 1 /\ Succeeded("generate") /\ ~last.ctx.isIteration) =>
        /\ Doc.componentVersions = <<>>
        /\ Doc.currentComponent.jsx = last.payload.jsx
        /\ Len(Chat) = 2

\* A generate call on the replace branch that archived the component it found.
C3_Witness ==
    /\ Succeeded("generate")
    /\ ~last.ctx.isIteration
    /\ NonEmptyComponent(PreDoc.currentComponent)
    /\ Len(Doc.componentVersions) = Len(PreDoc.componentVersions) + 1

----------------------------------------------------------------------------
(* Properties of generateComponent (specifications SpecOrch, FairSpecOrch)  *)

AllModelsFail == \A k \in 1..NumModels : oOutcome[k].kind # "text"

\* C5: when the provider fails for each of the four models, generateComponent
\* returns getMockComponent(prompt), whose jsx, css and explanation are
\* non-empty, instead of throwing: the call is in its loop or has returned,
\* and what it returned is the mock of its prompt.
C5_AllFailMock ==
    /\ oPc \in {"loop", "returned"}
    /\ (AllModelsFail /\ oPc = "returned") =>
        /\ oResult = getMockComponent(oPrompt)
        /\ Truthy(oResult.jsx) /\ Truthy(oResult.css) /\ Truthy(oResult.explanation)

\* All four models were called, one of them answered with no content, and the
\* call returned.
C5_Witness ==
    /\ AllModelsFail /\ oPc = "returned"
    /\ Len(oCalls) = NumModels
    /\ \E k \in 1..NumModels : oOutcome[k] = NullOutcome
    /\ \E k \in 1..NumModels : oOutcome[k] = ErrorOutcome

OrchOrdered ==
    /\ oCalls = [k \in 1..Len(oCalls) |-> k]
    /\ Len(oCalls) <= NumModels
    /\ \A k \in 1..Len(oCalls) :
          (k < Len(oCalls) \/ oPc = "loop") => oOutcome[k].kind # "text"
    /\ oPc = "loop" => oI = Len(oCalls) + 1 /\ oI <= NumModels
    /\ oPc = "returned" =>
        /\ Len(oCalls) >= 1
        /\ IF oOutcome[Len(oCalls)].kind = "text"
           THEN oResult = parseResponse(oOutcome[Len(oCalls)].text)
           ELSE Len(oCalls) = NumModels /\ oResult = getMockComponent(oPrompt)

\* C6: the models are called in list order, each at most once; a model is
\* called only after every earlier model failed; the first answer ends the
\* loop with its parsed text; and whatever the models do the call returns,
\* after at most four provider calls.
C6_OrderedFirstSuccess == []OrchOrdered /\ <>(oPc = "returned")

\* The third model answered after two failures, and the fourth, never called,
\* would have answered too.
C6_Witness ==
    /\ oPc = "returned"
    /\ oCalls = <<1, 2, 3>>
    /\ oOutcome[3].kind = "text"
    /\ oOutcome[4].kind = "text"

----------------------------------------------------------------------------
(* Properties of parseResponse (specification SpecParse)                   *)

\* C7: parseResponse returns, for every raw text, a payload whose jsx is not
\* empty.
C7_JsxNeverEmpty == pPc = "returned" => Truthy(pOut.jsx)

\* The empty completion: parseResponse returns it as the jsx.
C7_Witness == pPc = "returned" /\ pRaw = <<>> /\ pOut.jsx = <<>>

\* The first fenced block with one of the jsx tags.
TaggedJsxBlock(response) == BlockMatch(response, JsxTags, FALSE)
NoJsonMember(response) == \A i \in 1..Len(response) : response[i] \notin MemberToks

\* C8: for a raw text that holds no JSON payload but a fenced block tagged
\* jsx/tsx/javascript/typescript and a fenced block tagged css, parseResponse
\* returns the text of the first tagged block as jsx and the text of the css
\* block as css.
C8_FencedBlocks ==
    ( /\ pPc = "returned"
      /\ NoJsonMember(pRaw)
      /\ TaggedJsxBlock(pRaw).found
      /\ CssBlockMatch(pRaw).found ) =>
        /\ pOut.jsx = TaggedJsxBlock(pRaw).text
        /\ pOut.css = CssBlockMatch(pRaw).text

\* The text 'here is code: ' + jsx block 'const A=()=>1;' + ' and ' + css
\* block 'body{}': the braces of the css parse as an empty JSON object.
C8_Witness ==
    /\ pPc = "returned" /\ pRaw = Scenario
    /\ pOut.jsx = NoJsxProvided
    /\ pOut.css = NoStylesProvided

----------------------------------------------------------------------------
(* Properties of the ledger and the provider (specification Spec)          *)

\* C9: whenever generate, refine or generate-with-image succeeded, the jsx of
\* the payload it wrote (the assistant message's generatedCode, and
\* currentComponent where the route replaced it) is not empty.
C9_LedgerJsxNonEmpty ==
    (last.op \in {"generate", "refine", "image"} /\ last.status = 200) =>
        /\ Truthy(last.payload.jsx)
        /\ Truthy(Chat[Len(Chat)].generatedCode.jsx)
        /\ Doc.currentComponent.jsx = last.payload.jsx => Truthy(Doc.currentComponent.jsx)

\* A refinement the provider answered with an empty completion: the empty jsx
\* is the current component.
C9_Witness ==
    /\ Succeeded("refine")
    /\ last.source = "model"
    /\ Doc.currentComponent.jsx = <<>>
    /\ Chat[Len(Chat)].generatedCode.jsx = <<>>

\* C10: a well-formed generate or refine request on an owned active session
\* that no model answered (and no cache entry served), the store accepting
\* the save, ends 200 with the mock component, and chatHistory has grown by
\* the user and the assistant message; it never ends in a server error.
C10_ProviderDown ==
    ( /\ last.op \in {"generate", "refine"}
      /\ last.status \notin {400, 404}
      /\ last.source \notin {"model", "cache"}
      /\ last.detail # "save failed" ) =>
        /\ last.status = 200
        /\ last.source = "mock"
        /\ Len(Chat) = Len(PreDoc.chatHistory) + 2
        /\ Chat[Len(Chat)].generatedCode.jsx = last.payload.jsx

\* A refinement of a session that never got a component ends in a 500 before
\* the provider is asked.
C10_Witness ==
    /\ last.op = "refine" /\ last.status = 500 /\ last.detail = "TypeError"
    /\ ~Doc.currentComponent.present
    /\ Doc.chatHistory = <<>>

----------------------------------------------------------------------------
(* Properties of the ledger: lookup, soft delete, atomicity                *)

LedgerOps == {"generate", "refine", "image", "update", "chat", "export", "delete"}

\* The session the request named is missing, soft-deleted or someone else's.
Missing == req.sid \notin DOMAIN prev
Inactive == req.sid \in DOMAIN prev /\ ~prev[req.sid].isActive
Foreign == req.sid \in DOMAIN prev /\ prev[req.sid].userId # req.user

C12_InactiveNeverRead ==
    (last.op = "get" /\ last.status = 200) => prev[req.sid].isActive

\* The delete was persisted, its Redis delete failed, and the owner's GET is
\* answered with the inactive session.
C12_Witness ==
    /\ last.op = "get" /\ last.status = 200
    /\ hist # <<>> /\ hist[Len(hist)].op = "delete"
    /\ ~store[req.sid].isActive
    /\ req.sid \in sessionCache

----------------------------------------------------------------------------
(* Properties of the response cache                                        *)

\* The last request was a generate that got past validation and lookup.
GenerateServed == last.op = "generate" /\ last.status \notin {400, 404}
CacheHit == Truthy(req.lookup.jsx)
MissingJsx == "AI service response missing jsx property"

\* C14: in generate, a cached object with non-empty jsx is the payload and the
\* Orchestrator is not called; a miss or a cached value without jsx leads to
\* exactly one Orchestrator call followed by a write-through of the new
\* payload under the same key (checked wherever Redis accepts the write).
C14_HitBypassesMissWritesThrough ==
    GenerateServed =>
        IF CacheHit
        THEN /\ req.orchCalls = 0
             /\ last.status = 200 => last.payload = req.lookup /\ last.source = "cache"
        ELSE /\ req.orchCalls = 1
             /\ req.setOk =>
                    /\ req.key \in DOMAIN aiCache
                    /\ Truthy(aiCache[req.key].jsx)
                    /\ last.status = 200 => aiCache[req.key] = last.payload

\* A miss with Redis up, one Orchestrator call, and nothing written under the key.
C14_Witness ==
    /\ GenerateServed /\ ~CacheHit /\ req.setOk /\ req.orchCalls = 1
    /\ last.status = 500 /\ last.detail = MissingJsx
    /\ req.key \notin DOMAIN aiCache

\* The key a refinement would have: its prompt with the context refineComponent builds.
RefineKey ==
    CacheKey(hist[Len(hist)].prompt,
             [isIteration |-> TRUE, typescript |-> PreDoc.currentComponent.typescript])
RefineKeyCached == RefineKey \in DOMAIN aiCache /\ Truthy(aiCache[RefineKey].jsx)

\* C15 as stated: with the cache holding a payload under key K, a refinement
\* whose key is K returns the cached payload and the Orchestrator is not invoked.
C15_RefineReturnsStale ==
    Succeeded("refine") /\ RefineKeyCached =>
        req.orchCalls = 0 /\ last.payload = aiCache[RefineKey]

\* C15: the refine route never reads the cache: every refinement that gets to
\* the provider invokes the Orchestrator once and answers with its payload,
\* whatever the cache holds; the cached payload is returned, without an
\* Orchestrator call, by a generate whose prompt and context are those of the
\* key, iteration requests included.
C15_StaleOnlyThroughGenerate ==
    /\ Succeeded("refine") =>
           /\ req.orchCalls = 1
           /\ req.lookup = NoPayload
           /\ last.source \in {"model", "mock"}
    /\ GenerateServed /\ CacheHit /\ req.key.context.isIteration /\ last.status = 200 =>
           /\ req.orchCalls = 0
           /\ last.source = "cache"
           /\ last.payload = aiCache[req.key]

\* A refinement answered afresh while the cache holds another payload under its key.
C15_Witness ==
    /\ Succeeded("refine") /\ RefineKeyCached
    /\ req.orchCalls = 1
    /\ last.payload # aiCache[RefineKey]

\* The payloads the Orchestrator can produce for a prompt.
OrchestratorPayloads(prompt) == {generateComponent(prompt, o) : o \in OutcomePatterns}

\* C16: the cache is no correctness dependency of generate: whenever the
\* lookup yields no usable payload (no entry, an entry without jsx, or a failed
\* read), and whether or not the write succeeds, the Orchestrator is called, the response carries its
\* payload, the ledger transition is the one computed from that payload, and
\* the only errors answered are those of the generation and of the save.
C16_CacheNeverRequired ==
    GenerateServed /\ ~CacheHit =>
        /\ req.orchCalls = 1
        /\ last.status \in {200, 500}
        /\ last.status = 500 =>
               /\ last.detail \in {MissingJsx, "save failed"}
               /\ store = prev
        /\ last.status = 200 =>
               /\ last.source \in {"model", "mock"}
               /\ last.payload \in OrchestratorPayloads(req.key.prompt)
               /\ store = [prev EXCEPT ![req.sid] =
                              updateStats(GenerateLedger(prev[req.sid], req.key.prompt,
                                                         last.payload, req.key.context))]

\* The read failed (a usable entry sits under the key) and the write failed
\* too (the entry is not the new payload), and the generate succeeded.
C16_Witness ==
    /\ Succeeded("generate") /\ req.lookup = NoPayload /\ ~req.setOk
    /\ req.key \in DOMAIN aiCache /\ Truthy(aiCache[req.key].jsx)
    /\ req.orchCalls = 1
    /\ last.payload # aiCache[req.key]

----------------------------------------------------------------------------
(* Properties of the statistics and of the chat history                    *)

\* The assistant messages of a document that were given generated code.
CodeMessages(doc) ==
    {i \in 1..Len(doc.chatHistory) :
        doc.chatHistory[i].role = "assistant" /\ doc.chatHistory[i].generatedCode.present}

\* C17: in every persisted session, stats.messagesCount is the length of
\* chatHistory and stats.generationsCount is the number of assistant messages
\* that carry generatedCode.
C17_StatsMatchHistory ==
    \A sid \in DOMAIN store :
        /\ store[sid].stats.messagesCount = Len(store[sid].chatHistory)
        /\ store[sid].stats.generationsCount = Cardinality(CodeMessages(store[sid]))

\* An assistant message without code was added, and it was counted as a generation.
C17_Witness ==
    /\ Succeeded("chat")
    /\ Doc.stats.messagesCount = Len(Chat)
    /\ CodeMessages(Doc) = {}
    /\ Doc.stats.generationsCount = 1

\* C18: a successful export raises stats.exportsCount by exactly 1, lowers no
\* other stat and changes nothing else of the record (chatHistory,
\* currentComponent, componentVersions, title, tags, isActive); the increment
\* is persisted before the projection is answered, so an export that is not
\* answered with the projection leaves the record as it was.
C18_ExportCountsOnce ==
    /\ Succeeded("export") =>
           /\ Doc.stats.exportsCount = PreDoc.stats.exportsCount + 1
           /\ Doc.stats.messagesCount >= PreDoc.stats.messagesCount
           /\ Doc.stats.generationsCount >= PreDoc.stats.generationsCount
           /\ Doc.chatHistory = PreDoc.chatHistory
           /\ Doc.currentComponent = PreDoc.currentComponent
           /\ Doc.componentVersions = PreDoc.componentVersions
           /\ Doc.title = PreDoc.title
           /\ Doc.tags = PreDoc.tags
           /\ Doc.isActive = PreDoc.isActive
           /\ [Doc EXCEPT !.stats.exportsCount = PreDoc.stats.exportsCount] = PreDoc
    /\ last.op = "export" /\ last.status # 200 => store = prev

\* An export of a session that holds a generated component and its two messages.
C18_Witness ==
    /\ Succeeded("export")
    /\ Len(PreDoc.chatHistory) = 2
    /\ NonEmptyComponent(PreDoc.currentComponent)
    /\ PreDoc.stats.exportsCount = 0
    /\ Doc.stats.exportsCount = 1

\* C19: chatHistory is append-only under every operation: the persisted
\* chatHistory before a request (generate, refine, generate-with-image,
\* add-chat-message, PUT, export, delete, GET) is a prefix of the one after it.
C19_ChatAppendOnly ==
    \A sid \in DOMAIN store :
        /\ sid \in DOMAIN prev
        /\ IsPrefix(prev[sid].chatHistory, store[sid].chatHistory)

\* A message added behind the two messages of a generation.
C19_Witness ==
    /\ Succeeded("chat")
    /\ Len(PreDoc.chatHistory) = 2
    /\ Len(Chat) = 3
    /\ PreDoc.chatHistory[2].generatedCode.present
    /\ Chat[3].content = <<"noted">>

----------------------------------------------------------------------------
(* Properties of the debounced save (specification SpecEditor)             *)

\* C20: the debounced save is trailing-edge with a single timer slot: at most
\* one save timer is pending at any moment, and it is the one of the last
\* edit; every edit (jsx or css) leaves exactly its own freshly set timer
\* pending, with the full interval to run; an update is sent only when a full
\* quiet interval has passed since the last edit, and it carries the two
\* buffers as the last edit left them, never those of an earlier edit.
C20_TrailingEdgeDebounce ==
    /\ Cardinality(timers) <= 1
    /\ \A t \in timers :
           /\ t.id = saveTimeoutRef
           /\ [jsx |-> t.jsx, css |-> t.css] = lastEdit
    /\ eLast = "edit" =>
           /\ saveTimeoutRef = edits
           /\ timers = {Timer(saveTimeoutRef, currentCode, currentCSS, DebounceTicks)}
    /\ eLast = "fire" =>
           /\ quiet >= DebounceTicks
           /\ timers = {}
           /\ sent[Len(sent)] = Update(lastEdit.jsx, lastEdit.css)
    /\ Len(sent) <= edits

\* A burst of a jsx edit and a css edit, in either order, answered by one
\* update that carries both.
C20_Witness ==
    /\ eLast = "fire"
    /\ edits = 2
    /\ sent = <<Update(<<"<b/>">>, <<"x">>)>>

\* C21: on teardown of the session page the pending save is cancelled and not
\* flushed: once the page is unmounted no save timer is pending and no update
\* is handed to updateSessionMutation any more, so an edit whose quiet
\* interval had not passed at unmount is never sent.
C21_UnmountCancels ==
    /\ [](~mounted => timers = {})
    /\ [][~mounted => sent' = sent /\ mutations' \subseteq mutations]_vars

\* The page has just been left while the save of its one edit was still waiting.
C21_Witness ==
    /\ ~mounted
    /\ eLast = "unmount"
    /\ edits = 1
    /\ quiet < DebounceTicks
    /\ saveTimeoutRef = 1
    /\ timers = {}
    /\ sent = <<>>

----------------------------------------------------------------------------
(* Properties of the ledger: image generation, authoritative code, archive *)

\* C22: a successful generate-with-image appends the user/assistant pair,
\* the user message with hasImage true and the image reference, the assistant
\* message with the payload's code; it pushes a snapshot of the pre-call
\* currentComponent onto componentVersions exactly when that component is
\* non-empty; and it always replaces currentComponent with the payload's code.
C22_ImageGeneration ==
    Succeeded("image") =>
        LET n == Len(PreDoc.chatHistory)
            pre == PreDoc.currentComponent
        IN  /\ Len(Chat) = n + 2
            /\ SubSeq(Chat, 1, n) = PreDoc.chatHistory
            /\ Chat[n + 1].role = "user"
            /\ Chat[n + 1].content = hist[Len(hist)].prompt
            /\ Chat[n + 1].hasImage = TRUE
            /\ Chat[n + 1].imageUrl = ImageUrl
            /\ Chat[n + 2].role = "assistant"
            /\ Chat[n + 2].generatedCode = Code(last.payload.jsx, last.payload.css, FALSE)
            /\ Doc.componentVersions =
                   IF NonEmptyComponent(pre)
                   THEN Append(PreDoc.componentVersions, Snapshot(pre))
                   ELSE PreDoc.componentVersions
            /\ Doc.currentComponent = Comp(last.payload.jsx, last.payload.css, FALSE)

\* An image generation on top of a generated component, which it archives.
C22_Witness ==
    /\ Succeeded("image")
    /\ NonEmptyComponent(PreDoc.currentComponent)
    /\ Len(Doc.componentVersions) = 1
    /\ Len(Chat) = 4
    /\ Chat[3].hasImage
    /\ Doc.currentComponent # PreDoc.currentComponent

\* C23: after every successful generate, whatever context.isIteration and the
\* prior state, the jsx and css of currentComponent are those recorded in
\* generatedCode of the assistant message the call appended, which are the
\* payload answered to the caller.
C23_CurrentIsLatest ==
    Succeeded("generate") =>
        /\ Chat[Len(Chat)].generatedCode.jsx = last.payload.jsx
        /\ Chat[Len(Chat)].generatedCode.css = last.payload.css
        /\ Doc.currentComponent.present
        /\ Doc.currentComponent.jsx = Chat[Len(Chat)].generatedCode.jsx
        /\ Doc.currentComponent.css = Chat[Len(Chat)].generatedCode.css

\* An iteration request on a session that holds jsx: answered, recorded in the
\* chat, and the current component is still the one from before.
C23_Witness ==
    /\ Succeeded("generate")
    /\ last.ctx.isIteration
    /\ Truthy(PreDoc.currentComponent.jsx)
    /\ Doc.currentComponent = PreDoc.currentComponent
    /\ Chat[Len(Chat)].generatedCode.jsx = last.payload.jsx
    /\ Doc.currentComponent.jsx # last.payload.jsx

\* A snapshot without code: an empty placeholder.
EmptySnapshot(v) == ~Truthy(v.jsx) /\ ~Truthy(v.css)

SuppliedOnly(cc, patch) ==
    [present |-> TRUE,
     jsx |-> IF patch.jsx # UNDEF THEN patch.jsx ELSE cc.jsx,
     css |-> IF patch.css # UNDEF THEN patch.css ELSE cc.css,
     typescript |-> IF patch.tsGiven THEN patch.typescript ELSE cc.typescript]

\* The bodies of a manual edit: valid PUT bodies with a currentComponent.
ManualEdits == {body \in UpdateBodies : ValidUpdate(body) /\ body.currentComponent.given}

\* The last request was a successful PUT that changed or archived the component.
ManualEdited ==
    /\ Succeeded("update")
    /\ \/ Doc.currentComponent # PreDoc.currentComponent
       \/ Doc.componentVersions # PreDoc.componentVersions

\* C25: a manual edit (PUT with currentComponent) pushes a snapshot of the
\* pre-call currentComponent onto componentVersions exactly when that component
\* is non-empty, overwrites only the supplied fields of currentComponent, and
\* leaves chatHistory unchanged.
C25_ManualEditRule ==
    /\ Succeeded("update") => Doc.chatHistory = PreDoc.chatHistory
    /\ ManualEdited =>
           /\ Doc.componentVersions =
                  IF NonEmptyComponent(PreDoc.currentComponent)
                  THEN Append(PreDoc.componentVersions, Snapshot(PreDoc.currentComponent))
                  ELSE PreDoc.componentVersions
           /\ \E body \in ManualEdits :
                  Doc.currentComponent = SuppliedOnly(PreDoc.currentComponent, body.currentComponent)

\* A manual edit of a component that had css: the jsx is the body's, the old
\* component is archived, and the css, which no valid body can set to the
\* empty text, is empty.
C25_Witness ==
    /\ Succeeded("update")
    /\ Truthy(PreDoc.currentComponent.css)
    /\ Doc.currentComponent.jsx = <<"<p/>">>
    /\ Doc.currentComponent.css = <<>>
    /\ Doc.componentVersions = Append(PreDoc.componentVersions, Snapshot(PreDoc.currentComponent))
    /\ Doc.chatHistory = PreDoc.chatHistory

----------------------------------------------------------------------------
(* Properties of two concurrent requests (specification SpecRace)          *)

\* Both requests have saved, and both had loaded the session before the first save.
BothSavedOverlapped == Len(rSaved) = 2 /\ rSaved[1].overlapped

\* The session the two requests loaded.
RaceLoaded == rLocal[rSaved[1].request]

\* What the earlier save appended to the chat and to the versions.
EarlierMessages ==
    SubSeq(rSaved[1].doc.chatHistory, Len(RaceLoaded.chatHistory) + 1,
           Len(rSaved[1].doc.chatHistory))
EarlierVersions ==
    SubSeq(rSaved[1].doc.componentVersions, Len(RaceLoaded.componentVersions) + 1,
           Len(rSaved[1].doc.componentVersions))

\* C26: when two ledger operations on one session both read the record before
\* either saves, the outcome is last-write-wins on the whole document: the
\* persisted record after both saves is the document the later save wrote, and
\* the chat messages and the version snapshot the earlier one appended are
\* not in it.
C26_LastWriteWins ==
    BothSavedOverlapped =>
        /\ rDoc = rSaved[2].doc
        /\ Len(rDoc.chatHistory) = Len(rSaved[2].doc.chatHistory)
        /\ Len(rDoc.componentVersions) = Len(rSaved[2].doc.componentVersions)

\* Two overlapping generations on a session with two messages: the stored
\* chat holds the messages of both, the earlier pair first, the counter says 4.
C26_Witness ==
    /\ BothSavedOverlapped
    /\ Len(RaceLoaded.chatHistory) = 2
    /\ Len(EarlierMessages) = 2
    /\ Len(rSaved[2].doc.chatHistory) = 4
    /\ Len(rDoc.chatHistory) = 6
    /\ SubSeq(rDoc.chatHistory, 3, 4) = EarlierMessages
    /\ Len(EarlierVersions) = 1
    /\ Len(rDoc.componentVersions) = 2
    /\ rDoc.stats.messagesCount = 4
    /\ rDoc.currentComponent = rSaved[2].doc.currentComponent

----------------------------------------------------------------------------
(* Properties of the response cache: what is cached, and for whom          *)

\* C27: every payload served from the response cache was produced by a
\* provider completion: the mock payload returned after all models failed is
\* never written to the cache, so a later generate with the same prompt and
\* context reaches the provider.
C27_MockNeverCached ==
    /\ \A k \in DOMAIN aiCache : aiCache[k] # getMockComponent(k.prompt)
    /\ GenerateServed /\ CacheHit =>
           req.lookup # getMockComponent(req.key.prompt)

\* A generate answered from the cache with the mock component an earlier
\* request had been given: the provider is not asked.
C27_Witness ==
    /\ Succeeded("generate")
    /\ Len(hist) = 2
    /\ CacheHit
    /\ last.source = "cache"
    /\ req.orchCalls = 0
    /\ last.payload = getMockComponent(req.key.prompt)

\* The sessions whose chat, before the last request, held an assistant
\* message with the code of a payload: the sessions the payload was generated for.
GeneratedFor(payload) ==
    {sid \in DOMAIN prev :
        \E i \in 1..Len(prev[sid].chatHistory) :
            /\ prev[sid].chatHistory[i].role = "assistant"
            /\ prev[sid].chatHistory[i].generatedCode.present
            /\ prev[sid].chatHistory[i].generatedCode.jsx = payload.jsx
            /\ prev[sid].chatHistory[i].generatedCode.css = payload.css}

\* C28: a cache hit in generate only returns a payload that was generated
\* under the effective AI context of the request: a payload that was
\* generated for a session is answered from the cache only to requests of the
\* same principal on a session with the same framework and styleFramework.
C28_HitSameContext ==
    GenerateServed /\ CacheHit =>
        \A sid \in GeneratedFor(req.lookup) :
            /\ prev[sid].userId = req.user
            /\ prev[sid].settings = prev[req.sid].settings

\* u2's generate on the vue/tailwind session, answered from the cache with
\* the payload the provider produced for u1's react/css session.
C28_Witness ==
    /\ Succeeded("generate")
    /\ CacheHit
    /\ req.user = "u2"
    /\ prev[req.sid].settings.framework = "vue"
    /\ last.source = "cache"
    /\ GeneratedFor(last.payload) = {"s1"}
    /\ prev["s1"].userId = "u1"
    /\ prev["s1"].settings.framework = "react"

----------------------------------------------------------------------------
(* Properties of the debounced save under fairness (FairSpecEditor)        *)

\* The last update handed to updateSessionMutation is the one of the last edit.
LastEditSent ==
    /\ timers = {}
    /\ Len(sent) > 0
    /\ sent[Len(sent)] = Update(lastEdit.jsx, lastEdit.css)

\* C29: debounce liveness: if the page stays mounted and no further edit
\* arrives after an edit, then an update is eventually issued that carries the
\* jsx and css buffers as that edit left them; and it is the only one: while
\* no timer is pending, no update is issued without a new edit.
C29_DebounceLiveness ==
    /\ \A n \in 1..MaxEdits :
           (mounted /\ edits = n /\ timers # {}) ~> (edits > n \/ ~mounted \/ LastEditSent)
    /\ [][(timers = {} /\ edits' = edits) => sent' = sent]_vars

\* One edit, its update sent after the quiet interval and answered, the page still open.
C29_Witness ==
    /\ mounted
    /\ edits = 1
    /\ LastEditSent
    /\ Len(sent) = 1
    /\ quiet = DebounceTicks
    /\ mutations = {}
    /\ eLast = "settled"

----------------------------------------------------------------------------
(* Properties of the editor buffers against refetched server state         *)

\* C30: the editor buffers are never overwritten by server state older than
\* the latest local edit: while the save of an edit is still pending, the jsx
\* and css buffers are as that edit left them, whatever refetch of the session
\* query comes in.
C30_BuffersKeepNewerEdit ==
    mounted /\ timers # {} =>
        /\ currentCode = lastEdit.jsx
        /\ currentCSS = lastEdit.css

\* The first edit was saved and its refetch came in while the second edit
\* was pending: the jsx buffer is back at the first edit.
C30_Witness ==
    /\ mounted
    /\ eLast = "fetched"
    /\ edits = 2
    /\ timers # {}
    /\ Len(sent) = 1
    /\ session = sent[1]
    /\ currentCode = sent[1].jsx
    /\ currentCode # lastEdit.jsx

====
